---------------------------- MODULE Spec2Model ----------------------------
(* Model of slider/model/features.py: the feature extraction of a beatmap  *)
(* (extract_features), its batch form (extract_feature_array) and the scan *)
(* of a replay directory (extract_from_replay_directory).                  *)
(*                                                                         *)
(* Floating point values are modelled as exact rationals <<n, d>> (d > 0,  *)
(* lowest terms); rounding is not modelled.  arctan2 is an uninterpreted   *)
(* symbol over the displacements it is applied to.                         *)
EXTENDS Integers, Sequences, FiniteSets, TLC

-----------------------------------------------------------------------------
(* Rational arithmetic standing for Python float arithmetic.               *)

Abs(n) == IF n < 0 THEN -n ELSE n

RECURSIVE GCD(_, _)
GCD(a, b) == IF b = 0 THEN a ELSE GCD(b, a % b)

Rat(n, d) ==
    LET g == GCD(Abs(n), Abs(d))
        s == IF d < 0 THEN -1 ELSE 1
    IN  <<(s * n) \div g, (s * d) \div g>>

R(n) == <<n, 1>>

RSub(a, b) == Rat(a[1] * b[2] - b[1] * a[2], a[2] * b[2])
RMul(a, b) == Rat(a[1] * b[1], a[2] * b[2])
RDiv(a, b) == Rat(a[1] * b[2], a[2] * b[1])
RLt(a, b)  == a[1] * b[2] < b[1] * a[2]
RLe(a, b)  == a[1] * b[2] <= b[1] * a[2]
RMin(a, b) == IF RLt(b, a) THEN b ELSE a

\* float(flag)
BoolToFloat(b) == IF b THEN R(1) ELSE R(0)

-----------------------------------------------------------------------------
(* Hit objects and their geometry.                                         *)

\* The modifier keywords extract_features accepts and the replay scan passes.
FeatureMods ==
    {"easy", "hidden", "hard_rock", "double_time", "half_time", "flashlight"}

\* Beatmap.hit_objects_no_spinners: the hit objects that are not spinners.
hit_objects_no_spinners(hit_objects) ==
    SelectSeq(hit_objects, LAMBDA h : h.kind # "spinner")

\* One (x, y, z) triple per hit object; z is the time in seconds times 100.
hit_object_coordinates(hit_objects) ==
    [i \in 1..Len(hit_objects) |->
        [x |-> hit_objects[i].x,
         y |-> hit_objects[i].y,
         z |-> hit_objects[i].t * 100]]

\* np.diff along the object axis.
Diff(coords) ==
    [i \in 1..(Len(coords) - 1) |->
        [x |-> coords[i + 1].x - coords[i].x,
         y |-> coords[i + 1].y - coords[i].y,
         z |-> coords[i + 1].z - coords[i].z]]

\* |arctan2(a, b)|, uninterpreted.
AbsArctan2(a, b) == <<"abs-arctan2", a, b>>

\* np.abs(hit_object_angles(...)): pitch, roll and yaw of every transition.
\* With no hit object the output shape is (3, -1) and np.empty raises.
hit_object_angles(hit_objects) ==
    IF Len(hit_objects) = 0
    THEN [raised |-> TRUE, pitch |-> <<>>, roll |-> <<>>, yaw |-> <<>>]
    ELSE LET diff == Diff(hit_object_coordinates(hit_objects))
         IN  [raised |-> FALSE,
              pitch  |-> [i \in 1..Len(diff) |-> AbsArctan2(diff[i].y, diff[i].z)],
              roll   |-> [i \in 1..Len(diff) |-> AbsArctan2(diff[i].y, diff[i].x)],
              yaw    |-> [i \in 1..Len(diff) |-> AbsArctan2(diff[i].z, diff[i].x)]]

\* np.mean / np.median / np.max over the transitions of one angle kind: the
\* sample itself when there is exactly one, otherwise an uninterpreted
\* aggregate of the samples.
AngleStat(stat, samples) ==
    IF Len(samples) = 1 THEN samples[1] ELSE <<stat, samples>>

\* np.max over an empty axis raises (np.mean and np.median only yield nan).
AnglesRaise(angles) == angles.raised \/ Len(angles.pitch) = 0

CountKind(hit_objects, kinds) ==
    Len(SelectSeq(hit_objects, LAMBDA h : h.kind \in kinds))

\* Everything that is neither a Circle nor a Slider counts as a spinner.
count_hit_objects(hit_objects) ==
    [circles  |-> CountKind(hit_objects, {"circle"}),
     sliders  |-> CountKind(hit_objects, {"slider"}),
     spinners |-> Len(hit_objects)
                  - CountKind(hit_objects, {"circle"})
                  - CountKind(hit_objects, {"slider"})]

-----------------------------------------------------------------------------
(* Difficulty resolution inside extract_features.                          *)

\* Top of the difficulty scale, the cap in min(1.4 * od, 10).
MaxDifficulty == 10

\* slider.mod.ar_to_ms: approach rate to milliseconds, piecewise linear.
ar_to_ms(ar) ==
    IF RLe(R(5), ar)
    THEN RSub(R(1950), RMul(ar, R(150)))
    ELSE RSub(R(1800), RMul(ar, R(120)))

\* slider.mod.ms_to_ar: the inverse conversion.
ms_to_ar(ms) ==
    LET ar == RDiv(RSub(ms, R(1950)), R(-150))
    IN  IF RLt(ar, R(5)) THEN RDiv(RSub(ms, R(1800)), R(-120)) ELSE ar

\* Faulty variants of the easy / hard_rock branch: hard_rock tested first,
\* the cap left out, the elif turned into an else.
EasyHardRockStage_hard_rock_first(od, ar, easy, hard_rock) ==
    IF hard_rock
    THEN [od |-> RMin(RMul(Rat(7, 5), od), R(MaxDifficulty)),
          ar |-> RMin(RMul(Rat(7, 5), ar), R(MaxDifficulty))]
    ELSE IF easy
    THEN [od |-> RDiv(od, R(2)), ar |-> RDiv(ar, R(2))]
    ELSE [od |-> od, ar |-> ar]

EasyHardRockStage_no_cap(od, ar, easy, hard_rock) ==
    IF easy
    THEN [od |-> RDiv(od, R(2)), ar |-> RDiv(ar, R(2))]
    ELSE IF hard_rock
    THEN [od |-> RMul(Rat(7, 5), od), ar |-> RMul(Rat(7, 5), ar)]
    ELSE [od |-> od, ar |-> ar]

EasyHardRockStage_else(od, ar, easy, hard_rock) ==
    IF easy
    THEN [od |-> RDiv(od, R(2)), ar |-> RDiv(ar, R(2))]
    ELSE [od |-> RMin(RMul(Rat(7, 5), od), R(MaxDifficulty)),
          ar |-> RMin(RMul(Rat(7, 5), ar), R(MaxDifficulty))]

\* if easy: od /= 2; ar /= 2
\* elif hard_rock: od = min(1.4 * od, 10); ar = min(1.4 * ar, 10)
EasyHardRockStage(od, ar, easy, hard_rock) ==
    IF easy
    THEN [od |-> RDiv(od, R(2)), ar |-> RDiv(ar, R(2))]
    ELSE IF hard_rock
    THEN [od |-> RMin(RMul(Rat(7, 5), od), R(MaxDifficulty)),
          ar |-> RMin(RMul(Rat(7, 5), ar), R(MaxDifficulty))]
    ELSE [od |-> od, ar |-> ar]

\* Faulty variant of the half_time / double_time branch: half time also slows od.
HalfDoubleTimeStage_scales_od(p, half_time, double_time) ==
    IF half_time
    THEN [p EXCEPT !.od = RMul(@, Rat(3, 4)),
                   !.ar = ms_to_ar(RDiv(RMul(R(4), ar_to_ms(@)), R(3))),
                   !.bpm_min = RMul(@, Rat(3, 4)),
                   !.bpm_max = RMul(@, Rat(3, 4))]
    ELSE IF double_time
    THEN [p EXCEPT !.ar = ms_to_ar(RDiv(RMul(R(2), ar_to_ms(@)), R(3))),
                   !.bpm_min = RMul(@, Rat(3, 2)),
                   !.bpm_max = RMul(@, Rat(3, 2))]
    ELSE p

\* if half_time: ar = ms_to_ar(4 * ar_to_ms(ar) / 3); bpm *= 0.75
\* elif double_time: ar = ms_to_ar(2 * ar_to_ms(ar) / 3); bpm *= 1.5
\* p carries od, ar, bpm_min and bpm_max.
HalfDoubleTimeStage(p, half_time, double_time) ==
    IF half_time
    THEN [p EXCEPT !.ar = ms_to_ar(RDiv(RMul(R(4), ar_to_ms(@)), R(3))),
                   !.bpm_min = RMul(@, Rat(3, 4)),
                   !.bpm_max = RMul(@, Rat(3, 4))]
    ELSE IF double_time
    THEN [p EXCEPT !.ar = ms_to_ar(RDiv(RMul(R(2), ar_to_ms(@)), R(3))),
                   !.bpm_min = RMul(@, Rat(3, 2)),
                   !.bpm_max = RMul(@, Rat(3, 2))]
    ELSE p

\* The two stages in the order of the code.
ResolveDifficulty(beatmap, mods) ==
    LET s == EasyHardRockStage(beatmap.od, beatmap.ar,
                               mods["easy"], mods["hard_rock"])
    IN  HalfDoubleTimeStage(
            [od |-> s.od, ar |-> s.ar,
             bpm_min |-> beatmap.bpm_min, bpm_max |-> beatmap.bpm_max],
            mods["half_time"], mods["double_time"])


-----------------------------------------------------------------------------
(* extract_features and extract_feature_array.                             *)

\* The keys of the returned dict, in the order the literal lists them.
FeatureOrder ==
    <<"HP", "CS", "OD", "AR",
      "easy", "hidden", "hard_rock", "double_time", "half_time", "flashlight",
      "bpm-min", "bpm-max",
      "circle-count", "slider-count", "spinner-count",
      "slider-multiplier", "slider-tick-rate",
      "mean-pitch", "mean-roll", "mean-yaw",
      "median-pitch", "median-roll", "median-yaw",
      "max-pitch", "max-roll", "max-yaw">>

\* The code points of every key: Python compares str values by code point.
CodePoints ==
    ("HP" :> <<72, 80>>) @@
    ("CS" :> <<67, 83>>) @@
    ("OD" :> <<79, 68>>) @@
    ("AR" :> <<65, 82>>) @@
    ("easy" :> <<101, 97, 115, 121>>) @@
    ("hidden" :> <<104, 105, 100, 100, 101, 110>>) @@
    ("hard_rock" :> <<104, 97, 114, 100, 95, 114, 111, 99, 107>>) @@
    ("double_time" :> <<100, 111, 117, 98, 108, 101, 95, 116, 105, 109, 101>>) @@
    ("half_time" :> <<104, 97, 108, 102, 95, 116, 105, 109, 101>>) @@
    ("flashlight" :> <<102, 108, 97, 115, 104, 108, 105, 103, 104, 116>>) @@
    ("bpm-min" :> <<98, 112, 109, 45, 109, 105, 110>>) @@
    ("bpm-max" :> <<98, 112, 109, 45, 109, 97, 120>>) @@
    ("circle-count" :> <<99, 105, 114, 99, 108, 101, 45, 99, 111, 117, 110, 116>>) @@
    ("slider-count" :> <<115, 108, 105, 100, 101, 114, 45, 99, 111, 117, 110, 116>>) @@
    ("spinner-count" :> <<115, 112, 105, 110, 110, 101, 114, 45, 99, 111, 117, 110, 116>>) @@
    ("slider-multiplier" :> <<115, 108, 105, 100, 101, 114, 45, 109, 117, 108, 116, 105, 112, 108, 105, 101, 114>>) @@
    ("slider-tick-rate" :> <<115, 108, 105, 100, 101, 114, 45, 116, 105, 99, 107, 45, 114, 97, 116, 101>>) @@
    ("mean-pitch" :> <<109, 101, 97, 110, 45, 112, 105, 116, 99, 104>>) @@
    ("mean-roll" :> <<109, 101, 97, 110, 45, 114, 111, 108, 108>>) @@
    ("mean-yaw" :> <<109, 101, 97, 110, 45, 121, 97, 119>>) @@
    ("median-pitch" :> <<109, 101, 100, 105, 97, 110, 45, 112, 105, 116, 99, 104>>) @@
    ("median-roll" :> <<109, 101, 100, 105, 97, 110, 45, 114, 111, 108, 108>>) @@
    ("median-yaw" :> <<109, 101, 100, 105, 97, 110, 45, 121, 97, 119>>) @@
    ("max-pitch" :> <<109, 97, 120, 45, 112, 105, 116, 99, 104>>) @@
    ("max-roll" :> <<109, 97, 120, 45, 114, 111, 108, 108>>) @@
    ("max-yaw" :> <<109, 97, 120, 45, 121, 97, 119>>)

\* Lexicographic order of two code point sequences, compared from index i.
RECURSIVE LexLessFrom(_, _, _)
LexLessFrom(a, b, i) ==
    IF i > Len(b) THEN FALSE
    ELSE IF i > Len(a) THEN TRUE
    ELSE IF a[i] # b[i] THEN a[i] < b[i]
    ELSE LexLessFrom(a, b, i + 1)

LexLess(a, b) == LexLessFrom(a, b, 1)

\* str.lower on a code point sequence (the faulty variant below uses it).
Lower(a) == [i \in 1..Len(a) |-> IF a[i] >= 65 /\ a[i] <= 90 THEN a[i] + 32 ELSE a[i]]

\* Faulty variant: the keys compared without regard to case.
KeyLess_ignoring_case(k1, k2) == LexLess(Lower(CodePoints[k1]), Lower(CodePoints[k2]))

\* k1 < k2 for the keys _fst takes from two items.
KeyLess(k1, k2) == LexLess(CodePoints[k1], CodePoints[k2])

\* Where a key goes in a sorted list of keys: after the keys that are not
\* greater (sorted is stable).
RECURSIVE InsertAt(_, _, _)
InsertAt(key, s, i) ==
    IF i > Len(s) \/ KeyLess(key, s[i]) THEN i
    ELSE InsertAt(key, s, i + 1)

Insert(key, s) ==
    LET at == InsertAt(key, s, 1)
    IN  SubSeq(s, 1, at - 1) \o <<key>> \o SubSeq(s, at, Len(s))

RECURSIVE SortedPrefix(_, _)
SortedPrefix(keys, n) ==
    IF n = 0 THEN <<>> ELSE Insert(keys[n], SortedPrefix(keys, n - 1))

\* The keys of the dict as sorted(d.items(), key=_fst) orders the items.  The
\* keys are those of the dict literal, whatever the arguments, so the order
\* is computed once.
SortedKeys == SortedPrefix(FeatureOrder, Len(FeatureOrder))

\* sorted(d.items(), key=_fst): the (key, value) pairs by ascending key.
SortedItems(d) == [i \in 1..Len(SortedKeys) |-> <<SortedKeys[i], d[SortedKeys[i]]>>]

\* extract_features(beatmap, **mods): the dict of features by name, or the
\* exception the angle statistics raise.
extract_features(beatmap, mods) ==
    LET angles == hit_object_angles(hit_objects_no_spinners(beatmap.hit_objects))
        counts == count_hit_objects(beatmap.hit_objects)
        p      == ResolveDifficulty(beatmap, mods)
    IN  IF AnglesRaise(angles)
        THEN [status |-> "raised", features |-> <<>>]
        ELSE [status |-> "ok",
              features |->
                ("HP" :> beatmap.hp) @@
                ("CS" :> beatmap.cs) @@
                ("OD" :> p.od) @@
                ("AR" :> p.ar) @@
                ("easy" :> BoolToFloat(mods["easy"])) @@
                ("hidden" :> BoolToFloat(mods["hidden"])) @@
                ("hard_rock" :> BoolToFloat(mods["hard_rock"])) @@
                ("double_time" :> BoolToFloat(mods["double_time"])) @@
                ("half_time" :> BoolToFloat(mods["half_time"])) @@
                ("flashlight" :> BoolToFloat(mods["flashlight"])) @@
                ("bpm-min" :> p.bpm_min) @@
                ("bpm-max" :> p.bpm_max) @@
                ("circle-count" :> R(counts.circles)) @@
                ("slider-count" :> R(counts.sliders)) @@
                ("spinner-count" :> R(counts.spinners)) @@
                ("slider-multiplier" :> beatmap.slider_multiplier) @@
                ("slider-tick-rate" :> beatmap.slider_tick_rate) @@
                ("mean-pitch" :> AngleStat("mean", angles.pitch)) @@
                ("mean-roll" :> AngleStat("mean", angles.roll)) @@
                ("mean-yaw" :> AngleStat("mean", angles.yaw)) @@
                ("median-pitch" :> AngleStat("median", angles.pitch)) @@
                ("median-roll" :> AngleStat("median", angles.roll)) @@
                ("median-yaw" :> AngleStat("median", angles.yaw)) @@
                ("max-pitch" :> AngleStat("max", angles.pitch)) @@
                ("max-roll" :> AngleStat("max", angles.roll)) @@
                ("max-yaw" :> AngleStat("max", angles.yaw))]

\* One row of the array: snd of every sorted item.
Row(features) ==
    LET sorted == SortedItems(features)
    IN  [i \in 1..Len(sorted) |-> sorted[i][2]]

\* The guard of the list comprehension.
HasEnoughHitObjects(beatmap) == Len(beatmap.hit_objects) >= 2

\* extract_feature_array(beatmaps_and_mods), evaluated pair by pair from
\* the accumulator acc: the array of rows, or the exception of the first
\* extract_features call that raises.  calls lists the pairs extract_features
\* was invoked on.
RECURSIVE FeatureArrayFrom(_, _)
FeatureArrayFrom(pairs, acc) ==
    IF Len(pairs) = 0 THEN acc
    ELSE IF ~HasEnoughHitObjects(pairs[1].beatmap)
    THEN FeatureArrayFrom(Tail(pairs), acc)
    ELSE LET r == extract_features(pairs[1].beatmap, pairs[1].mods)
         IN  IF r.status = "raised"
             THEN [status |-> "raised", array |-> <<>>,
                   calls |-> Append(acc.calls, pairs[1])]
             ELSE FeatureArrayFrom(Tail(pairs),
                    [status |-> "ok",
                     array  |-> Append(acc.array, Row(r.features)),
                     calls  |-> Append(acc.calls, pairs[1])])

extract_feature_array(beatmaps_and_mods) ==
    FeatureArrayFrom(beatmaps_and_mods,
                     [status |-> "ok", array |-> <<>>, calls |-> <<>>])

-----------------------------------------------------------------------------
(* Inputs.                                                                 *)

Obj(kind, x, y, t) == [kind |-> kind, x |-> x, y |-> y, t |-> t]

\* Hit object lists: regular ones, and the degenerate ones (empty, a single
\* object, a circle next to a spinner).
TwoObjects      == <<Obj("circle", 0, 0, 0), Obj("slider", 3, 4, 1)>>
ThreeObjects    == <<Obj("circle", 0, 0, 0), Obj("spinner", 256, 192, 1),
                     Obj("slider", 1, 5, 2)>>
NoObjects       == <<>>
OneObject       == <<Obj("circle", 2, 2, 0)>>
CircleAndSpinner == <<Obj("circle", 0, 0, 0), Obj("spinner", 256, 192, 1)>>

MakeBeatmap(hit_objects, od, ar) ==
    [hit_objects |-> hit_objects,
     hp |-> R(6), cs |-> R(4), od |-> od, ar |-> ar,
     slider_multiplier |-> Rat(7, 5), slider_tick_rate |-> R(2),
     bpm_min |-> R(120), bpm_max |-> R(180)]

\* Base OD and AR values, all within the difficulty scale [0, 10].
DifficultyValues == {R(0), R(3), R(5), Rat(15, 2), R(10)}

AllMods == [FeatureMods -> BOOLEAN]
NoMods  == [m \in FeatureMods |-> FALSE]

\* The longest directory scan.
MaxRecords == 3

-----------------------------------------------------------------------------
(* State.                                                                  *)

VARIABLES
    \* extract_from_replay_directory
    pc,                 \* "idle", "scan", "returned" or "raised"
    age,                \* the age argument: [given, value]
    now,                \* the clock datetime.utcnow() reads
    scanned,            \* the entries os.scandir has yielded so far
    beatmaps_and_mods,  \* the local list of (beatmap, mods) pairs
    accuracies,         \* the local list of accuracies
    result,             \* what the call returned or raised
    \* direct calls of extract_features and extract_feature_array
    fx_phase,           \* "idle", "input", "features" or "array"
    fx_beatmap,         \* the beatmap argument
    fx_mods,            \* the keyword arguments
    fx_stage,           \* the locals od and ar after the easy / hard_rock branch
    fx_out,             \* the result of extract_features
    fa_in,              \* the argument of extract_feature_array
    fa_out              \* the result of extract_feature_array

vars == <<pc, age, now, scanned, beatmaps_and_mods, accuracies, result,
          fx_phase, fx_beatmap, fx_mods, fx_stage, fx_out, fa_in, fa_out>>

scan_vars == <<pc, age, now, scanned, beatmaps_and_mods, accuracies, result>>
call_vars == <<fx_phase, fx_beatmap, fx_mods, fx_stage, fx_out, fa_in, fa_out>>

NoResult   == [status |-> "none", features |-> <<>>, labels |-> <<>>, calls |-> <<>>]
NoStage    == [reached |-> FALSE, od |-> R(0), ar |-> R(0)]
NoFeatures == [status |-> "none", features |-> <<>>]
NoArray    == [status |-> "none", array |-> <<>>, calls |-> <<>>]
NoAge      == [given |-> FALSE, value |-> 0]

-----------------------------------------------------------------------------
(* Direct calls of extract_features and extract_feature_array.             *)

FxBeatmaps ==
    {MakeBeatmap(h, od, ar) :
        h \in {TwoObjects, ThreeObjects, CircleAndSpinner},
        od \in DifficultyValues, ar \in DifficultyValues}

\* The pairs that may stand next to the drawn pair in a batch call.
Companions ==
    {<<>>,
     <<[beatmap |-> MakeBeatmap(ThreeObjects, R(4), R(9)),
        mods |-> [NoMods EXCEPT !["hidden"] = TRUE]]>>,
     <<[beatmap |-> MakeBeatmap(OneObject, R(4), R(9)), mods |-> NoMods]>>}

CallIdle ==
    /\ fx_phase = "idle"
    /\ fx_beatmap = MakeBeatmap(NoObjects, R(0), R(0))
    /\ fx_mods = NoMods
    /\ fx_stage = NoStage
    /\ fx_out = NoFeatures
    /\ fa_in = <<>>
    /\ fa_out = NoArray

ScanIdle ==
    /\ pc = "idle"
    /\ age = NoAge
    /\ now = 0
    /\ scanned = <<>>
    /\ beatmaps_and_mods = <<>>
    /\ accuracies = <<>>
    /\ result = NoResult

InitFeatures ==
    /\ ScanIdle
    /\ fx_phase = "input"
    /\ fx_beatmap \in FxBeatmaps
    /\ fx_mods \in AllMods
    /\ fx_stage = NoStage
    /\ fx_out = NoFeatures
    /\ fa_in = <<>>
    /\ fa_out = NoArray

\* features = extract_features(beatmap, **mods)
CallExtractFeatures ==
    /\ fx_phase = "input"
    /\ fx_phase' = "features"
    /\ fx_out' = extract_features(fx_beatmap, fx_mods)
    /\ fx_stage' =
         IF fx_out'.status = "raised" THEN NoStage
         ELSE LET s == EasyHardRockStage(fx_beatmap.od, fx_beatmap.ar,
                                         fx_mods["easy"], fx_mods["hard_rock"])
              IN  [reached |-> TRUE, od |-> s.od, ar |-> s.ar]
    /\ UNCHANGED <<fx_beatmap, fx_mods, fa_in, fa_out>>
    /\ UNCHANGED scan_vars

\* array = extract_feature_array(pairs), the drawn pair first or last.
CallExtractFeatureArray ==
    /\ fx_phase = "input"
    /\ fx_phase' = "array"
    /\ \E others \in Companions :
         LET me == <<[beatmap |-> fx_beatmap, mods |-> fx_mods]>>
         IN  fa_in' \in {me \o others, others \o me}
    /\ fa_out' = extract_feature_array(fa_in')
    /\ UNCHANGED <<fx_beatmap, fx_mods, fx_stage, fx_out>>
    /\ UNCHANGED scan_vars

NextFeatures == CallExtractFeatures \/ CallExtractFeatureArray

SpecFeatures == InitFeatures /\ [][NextFeatures]_vars

-----------------------------------------------------------------------------
(* extract_from_replay_directory.                                          *)

\* File names, one character per element.
OsrSuffix == <<".", "o", "s", "r">>
OsrName   == <<"a", ".", "o", "s", "r">>
OsuName   == <<"a", ".", "o", "s", "u">>

\* str.endswith
EndsWith(name, suffix) ==
    /\ Len(name) >= Len(suffix)
    /\ SubSeq(name, Len(name) - Len(suffix) + 1, Len(name)) = suffix

BaseReplay ==
    [timestamp |-> 3,
     autoplay |-> FALSE, spun_out |-> FALSE, auto_pilot |-> FALSE,
     cinema |-> FALSE, relax |-> FALSE,
     easy |-> FALSE, hidden |-> FALSE, hard_rock |-> FALSE,
     double_time |-> FALSE, half_time |-> FALSE, flashlight |-> FALSE,
     beatmap |-> MakeBeatmap(TwoObjects, R(8), R(9)),
     accuracy |-> 95]

\* The replays the directory may hold: the base replay, and replays that
\* differ from it in timestamp, in one excluding flag, in beatmap, or in
\* feature modifiers and accuracy.
Replays ==
    {BaseReplay,
     [BaseReplay EXCEPT !.timestamp = 2, !.accuracy = 80,
                        !.easy = TRUE, !.double_time = TRUE,
                        !.beatmap = MakeBeatmap(ThreeObjects, R(5), R(9))],
     [BaseReplay EXCEPT !.autoplay = TRUE, !.accuracy = 100],
     [BaseReplay EXCEPT !.spun_out = TRUE, !.accuracy = 70],
     [BaseReplay EXCEPT !.auto_pilot = TRUE, !.accuracy = 71],
     [BaseReplay EXCEPT !.cinema = TRUE, !.accuracy = 100],
     [BaseReplay EXCEPT !.relax = TRUE, !.accuracy = 72],
     [BaseReplay EXCEPT !.relax = TRUE, !.accuracy = 73,
                        !.beatmap = MakeBeatmap(CircleAndSpinner, R(8), R(9))],
     [BaseReplay EXCEPT !.beatmap = MakeBeatmap(NoObjects, R(8), R(9)),
                        !.accuracy = 60],
     [BaseReplay EXCEPT !.beatmap = MakeBeatmap(CircleAndSpinner, R(8), R(9)),
                        !.accuracy = 61]}

\* The directory entries os.scandir may yield.
Entries ==
    {[name |-> OsrName, parses |-> TRUE, replay |-> r] : r \in Replays}
    \cup {[name |-> OsrName, parses |-> FALSE, replay |-> BaseReplay],
          [name |-> OsuName, parses |-> FALSE, replay |-> BaseReplay]}

\* The instants the clock goes through during a scan.
Instants == {3, 4}

Ages == {NoAge, [given |-> TRUE, value |-> 1]}

\* Faulty variant: the boundary excluded as well.
TooOld_at_boundary(replay, max_age, utcnow) ==
    max_age.given /\ utcnow - replay.timestamp >= max_age.value

\* age is not None and datetime.utcnow() - replay.timestamp > age
TooOld(replay, max_age, utcnow) ==
    max_age.given /\ utcnow - replay.timestamp > max_age.value

\* Faulty variant: relax forgotten.
Unrepresentative_without_relax(replay) ==
    replay.autoplay \/ replay.spun_out \/ replay.auto_pilot \/ replay.cinema

\* replay.autoplay or replay.spun_out or replay.auto_pilot or replay.cinema
\* or replay.relax
Unrepresentative(replay) ==
    \/ replay.autoplay
    \/ replay.spun_out
    \/ replay.auto_pilot
    \/ replay.cinema
    \/ replay.relax

\* Faulty variant: a replay that cannot be parsed is skipped.
ScanOutcome_skips_unparsed(entry, max_age, utcnow) ==
    IF ~EndsWith(entry.name, OsrSuffix) THEN "not_osr"
    ELSE IF ~entry.parses THEN "not_osr"
    ELSE IF TooOld(entry.replay, max_age, utcnow) THEN "too_old"
    ELSE IF Unrepresentative(entry.replay) THEN "unrepresentative"
    ELSE "keep"

\* What one iteration of the loop does with an entry.
ScanOutcome(entry, max_age, utcnow) ==
    IF ~EndsWith(entry.name, OsrSuffix) THEN "not_osr"
    ELSE IF ~entry.parses THEN "raise"
    ELSE IF TooOld(entry.replay, max_age, utcnow) THEN "too_old"
    ELSE IF Unrepresentative(entry.replay) THEN "unrepresentative"
    ELSE "keep"

\* The dict of keyword arguments built for a kept replay.
ModsOf(replay) ==
    [m \in FeatureMods |->
        CASE m = "easy"        -> replay.easy
          [] m = "hidden"      -> replay.hidden
          [] m = "hard_rock"   -> replay.hard_rock
          [] m = "double_time" -> replay.double_time
          [] m = "half_time"   -> replay.half_time
          [] m = "flashlight"  -> replay.flashlight]

\* One entry as the scan saw it: the entry and the clock at that iteration.
Seen(entry) == [entry |-> entry, now |-> now]

Init ==
    /\ CallIdle
    /\ pc = "scan"
    /\ age \in Ages
    /\ now = 3
    /\ scanned = <<>>
    /\ beatmaps_and_mods = <<>>
    /\ accuracies = <<>>
    /\ result = NoResult

\* Time passes while the directory is scanned (the clock is read only when
\* an age is given).
Tick ==
    /\ pc = "scan"
    /\ age.given
    /\ now + 1 \in Instants
    /\ now' = now + 1
    /\ UNCHANGED <<pc, age, scanned, beatmaps_and_mods, accuracies, result>>
    /\ UNCHANGED call_vars

\* if not entry.name.endswith('.osr'): continue
SkipName(entry) ==
    /\ pc = "scan"
    /\ Len(scanned) < MaxRecords
    /\ ScanOutcome(entry, age, now) = "not_osr"
    /\ scanned' = Append(scanned, Seen(entry))
    /\ UNCHANGED <<pc, age, now, beatmaps_and_mods, accuracies, result>>
    /\ UNCHANGED call_vars

\* Replay.from_path raises: the exception leaves the function.
ParseFails(entry) ==
    /\ pc = "scan"
    /\ Len(scanned) < MaxRecords
    /\ ScanOutcome(entry, age, now) = "raise"
    /\ scanned' = Append(scanned, Seen(entry))
    /\ pc' = "raised"
    /\ result' = [NoResult EXCEPT !.status = "raised"]
    /\ UNCHANGED <<age, now, beatmaps_and_mods, accuracies>>
    /\ UNCHANGED call_vars

\* if age is not None and datetime.utcnow() - replay.timestamp > age: continue
SkipOld(entry) ==
    /\ pc = "scan"
    /\ Len(scanned) < MaxRecords
    /\ ScanOutcome(entry, age, now) = "too_old"
    /\ scanned' = Append(scanned, Seen(entry))
    /\ UNCHANGED <<pc, age, now, beatmaps_and_mods, accuracies, result>>
    /\ UNCHANGED call_vars

\* ignore plays with mods that are not representative of user skill
SkipMods(entry) ==
    /\ pc = "scan"
    /\ Len(scanned) < MaxRecords
    /\ ScanOutcome(entry, age, now) = "unrepresentative"
    /\ scanned' = Append(scanned, Seen(entry))
    /\ UNCHANGED <<pc, age, now, beatmaps_and_mods, accuracies, result>>
    /\ UNCHANGED call_vars

\* beatmap_and_mod_append(...); accuracy_append(replay.accuracy)
KeepReplay(entry) ==
    /\ pc = "scan"
    /\ Len(scanned) < MaxRecords
    /\ ScanOutcome(entry, age, now) = "keep"
    /\ scanned' = Append(scanned, Seen(entry))
    /\ beatmaps_and_mods' =
         Append(beatmaps_and_mods,
                [beatmap |-> entry.replay.beatmap, mods |-> ModsOf(entry.replay)])
    /\ accuracies' = Append(accuracies, entry.replay.accuracy)
    /\ UNCHANGED <<pc, age, now, result>>
    /\ UNCHANGED call_vars

\* return extract_feature_array(beatmaps_and_mods), np.array(accuracies)
ReturnDataset ==
    /\ pc = "scan"
    /\ LET fa == extract_feature_array(beatmaps_and_mods)
       IN  /\ fa.status = "ok"
           /\ result' = [status |-> "returned", features |-> fa.array,
                         labels |-> accuracies, calls |-> fa.calls]
    /\ pc' = "returned"
    /\ UNCHANGED <<age, now, scanned, beatmaps_and_mods, accuracies>>
    /\ UNCHANGED call_vars

\* The same statement when a call of extract_features raises.
ReturnRaises ==
    /\ pc = "scan"
    /\ LET fa == extract_feature_array(beatmaps_and_mods)
       IN  /\ fa.status = "raised"
           /\ result' = [status |-> "raised", features |-> <<>>,
                         labels |-> <<>>, calls |-> fa.calls]
    /\ pc' = "raised"
    /\ UNCHANGED <<age, now, scanned, beatmaps_and_mods, accuracies>>
    /\ UNCHANGED call_vars

Next ==
    \/ Tick
    \/ \E entry \in Entries : SkipName(entry)
    \/ \E entry \in Entries : ParseFails(entry)
    \/ \E entry \in Entries : SkipOld(entry)
    \/ \E entry \in Entries : SkipMods(entry)
    \/ \E entry \in Entries : KeepReplay(entry)
    \/ ReturnDataset
    \/ ReturnRaises

Spec == Init /\ [][Next]_vars

-----------------------------------------------------------------------------
(* Properties of extract_features and extract_feature_array.               *)

FxOk == fx_phase = "features" /\ fx_out.status = "ok"

\* The feature names of the schema.
FeatureSchema ==
    {"HP", "CS", "OD", "AR",
     "easy", "hidden", "hard_rock", "double_time", "half_time", "flashlight",
     "bpm-min", "bpm-max",
     "circle-count", "slider-count", "spinner-count",
     "slider-multiplier", "slider-tick-rate",
     "mean-pitch", "mean-roll", "mean-yaw",
     "median-pitch", "median-roll", "median-yaw",
     "max-pitch", "max-roll", "max-yaw"}

\* The column of a name in ascending lexicographic order: one more than the
\* number of names that are smaller.
ColumnOf ==
    [a \in FeatureSchema |->
        1 + Cardinality({b \in FeatureSchema :
                            LexLess(CodePoints[b], CodePoints[a])})]

\* C4: for every combination of the six flags extract_features returns a
\* mapping over the same fixed set of names, and every row of
\* extract_feature_array holds the value of each name at the column the name
\* has in ascending lexicographic order.
C4_FixedKeysSortedColumns ==
    /\ FxOk =>
         /\ DOMAIN fx_out.features = FeatureSchema
         /\ DOMAIN fx_out.features = {FeatureOrder[i] : i \in 1..Len(FeatureOrder)}
    /\ (fx_phase = "array" /\ fa_out.status = "ok") =>
         /\ Len(fa_out.array) = Len(fa_out.calls)
         /\ \A i \in 1..Len(fa_out.array) :
              LET f == extract_features(fa_out.calls[i].beatmap,
                                        fa_out.calls[i].mods).features
              IN  /\ Len(fa_out.array[i]) = Cardinality(FeatureSchema)
                  /\ \A a \in FeatureSchema : fa_out.array[i][ColumnOf[a]] = f[a]

\* Two rows, built under different flags, in one array.
C4_Witness ==
    /\ fx_phase = "array"
    /\ fa_out.status = "ok"
    /\ Len(fa_out.array) = 2
    /\ fx_mods["easy"] /\ fx_mods["flashlight"] /\ fx_mods["double_time"]
    /\ fa_out.array[1] # fa_out.array[2]

\* The difficulty resolved with the half_time / double_time stage first.
SwappedResolve(beatmap, mods) ==
    LET t == HalfDoubleTimeStage(
                [od |-> beatmap.od, ar |-> beatmap.ar,
                 bpm_min |-> beatmap.bpm_min, bpm_max |-> beatmap.bpm_max],
                mods["half_time"], mods["double_time"])
        s == EasyHardRockStage(t.od, t.ar, mods["easy"], mods["hard_rock"])
    IN  [od |-> s.od, ar |-> s.ar, bpm_min |-> t.bpm_min, bpm_max |-> t.bpm_max]

EasyOrHardRock == fx_mods["easy"] \/ fx_mods["hard_rock"]
HalfOrDoubleTime == fx_mods["half_time"] \/ fx_mods["double_time"]

\* C5 as stated: the two stages in either order yield the same OD, AR,
\* bpm_min and bpm_max.
C5_OrderIndependent ==
    FxOk =>
        LET w == SwappedResolve(fx_beatmap, fx_mods)
        IN  /\ fx_out.features["OD"] = w.od
            /\ fx_out.features["AR"] = w.ar
            /\ fx_out.features["bpm-min"] = w.bpm_min
            /\ fx_out.features["bpm-max"] = w.bpm_max

\* C5 as amended: the two stages in either order yield the same OD, bpm_min
\* and bpm_max, and the same AR when at most one of the stages has a flag set.
C5_OrderIndependentButAR ==
    FxOk =>
        LET w == SwappedResolve(fx_beatmap, fx_mods)
        IN  /\ fx_out.features["OD"] = w.od
            /\ fx_out.features["bpm-min"] = w.bpm_min
            /\ fx_out.features["bpm-max"] = w.bpm_max
            /\ ~(EasyOrHardRock /\ HalfOrDoubleTime) => fx_out.features["AR"] = w.ar

\* Both stages act, and the AR depends on their order.
C5_Witness ==
    /\ FxOk
    /\ fx_mods["hard_rock"] /\ ~fx_mods["easy"] /\ fx_mods["half_time"]
    /\ fx_beatmap.od = R(10)
    /\ fx_out.features["AR"] # SwappedResolve(fx_beatmap, fx_mods).ar

\* C6 as stated: with easy and hard_rock both set, the easy / hard_rock stage
\* yields OD = min(1.4 * OD, 10) and AR = min(1.4 * AR, 10).
C6_HardRockWins ==
    (FxOk /\ fx_mods["easy"] /\ fx_mods["hard_rock"]) =>
        /\ fx_stage.od = RMin(RMul(Rat(7, 5), fx_beatmap.od), R(10))
        /\ fx_stage.ar = RMin(RMul(Rat(7, 5), fx_beatmap.ar), R(10))

\* C6 as amended: with easy and hard_rock both set, easy wins: the stage
\* yields OD / 2 and AR / 2, and OD / 2 is the OD returned.
C6_EasyWins ==
    (FxOk /\ fx_mods["easy"] /\ fx_mods["hard_rock"]) =>
        /\ fx_stage.reached
        /\ fx_stage.od = RDiv(fx_beatmap.od, R(2))
        /\ fx_stage.ar = RDiv(fx_beatmap.ar, R(2))
        /\ fx_out.features["OD"] = RDiv(fx_beatmap.od, R(2))

C6_Witness ==
    /\ FxOk
    /\ fx_mods["easy"] /\ fx_mods["hard_rock"]
    /\ fx_beatmap.od = R(10) /\ fx_beatmap.ar = R(3)
    /\ fx_stage.od = R(5) /\ fx_stage.ar = Rat(3, 2)

\* C7: HP and CS are the base values under every flag combination, and with
\* none of easy, hard_rock, half_time, double_time set so are OD, AR, bpm-min
\* and bpm-max.
C7_IdentityWithoutMods ==
    FxOk =>
        /\ fx_out.features["HP"] = fx_beatmap.hp
        /\ fx_out.features["CS"] = fx_beatmap.cs
        /\ ~(EasyOrHardRock \/ HalfOrDoubleTime) =>
              /\ fx_out.features["OD"] = fx_beatmap.od
              /\ fx_out.features["AR"] = fx_beatmap.ar
              /\ fx_out.features["bpm-min"] = fx_beatmap.bpm_min
              /\ fx_out.features["bpm-max"] = fx_beatmap.bpm_max

C7_Witness ==
    /\ FxOk
    /\ ~(EasyOrHardRock \/ HalfOrDoubleTime)
    /\ fx_mods["hidden"] /\ fx_mods["flashlight"]
    /\ fx_beatmap.od = R(10) /\ fx_beatmap.ar = Rat(15, 2)
    /\ fx_out.features["AR"] = Rat(15, 2)

\* C8: with hard_rock set the easy / hard_rock stage never yields an OD or AR
\* above 10, the OD returned is never above 10, and neither is the AR
\* returned when no half_time / double_time flag changes it afterwards.
C8_HardRockCapped ==
    (FxOk /\ fx_mods["hard_rock"]) =>
        /\ fx_stage.reached
        /\ RLe(fx_stage.od, R(10))
        /\ RLe(fx_stage.ar, R(10))
        /\ RLe(fx_out.features["OD"], R(10))
        /\ ~HalfOrDoubleTime => RLe(fx_out.features["AR"], R(10))

\* The cap applies: 1.4 * 10 and 1.4 * 7.5 both come out as 10.
C8_Witness ==
    /\ FxOk
    /\ fx_mods["hard_rock"] /\ ~fx_mods["easy"] /\ ~HalfOrDoubleTime
    /\ fx_beatmap.od = R(10) /\ fx_beatmap.ar = Rat(15, 2)
    /\ fx_out.features["OD"] = R(10) /\ fx_out.features["AR"] = R(10)

-----------------------------------------------------------------------------
(* Properties of extract_from_replay_directory.                            *)

\* The flags that exclude a replay from the training data.
ExcludingFlags == {"autoplay", "spun_out", "auto_pilot", "cinema", "relax"}

AnyExcludingFlag(replay) == \E f \in ExcludingFlags : replay[f]

\* A scanned entry that has the extension and was parsed.
IsReplay(s) == EndsWith(s.entry.name, OsrSuffix) /\ s.entry.parses

\* A scanned entry that has the extension and could not be parsed.
IsUnparsed(s) == EndsWith(s.entry.name, OsrSuffix) /\ ~s.entry.parses

\* Older than the maximum age at the instant the scan looked at it.
OlderThanAge(s) == age.given /\ s.now - s.entry.replay.timestamp > age.value

\* The row extract_features and the sorted serialization give one replay.
RowOfReplay(replay) ==
    Row(extract_features(replay.beatmap, ModsOf(replay)).features)

\* C1 as stated: the matrix and the label vector returned have as many rows,
\* and row i is the feature vector of the replay whose accuracy is label i.
C1_RowsAlignedWithLabels ==
    pc = "returned" =>
        /\ Len(result.features) = Len(result.labels)
        /\ \A i \in 1..Len(result.labels) :
              /\ result.labels[i] = accuracies[i]
              /\ result.features[i] =
                    Row(extract_features(beatmaps_and_mods[i].beatmap,
                                         beatmaps_and_mods[i].mods).features)

\* C2 as stated: every beatmap the batch path invokes extract_features on
\* has at least two hit objects that are not spinners.
C2_CallsHaveTwoNonSpinners ==
    \A i \in 1..Len(result.calls) :
        Len(hit_objects_no_spinners(result.calls[i].beatmap.hit_objects)) >= 2

\* C3: in a returned dataset the rows are those of the scanned replays that
\* pass the extension, age and hit object count filters and have none of the
\* five excluding flags set, and the labels those of the replays that pass the
\* extension and age filters and have none of the flags set, both in the
\* order of the scan.
C3_RowsOfUnflaggedInScanOrder ==
    pc = "returned" =>
        LET unflagged == SelectSeq(scanned,
                LAMBDA s : IsReplay(s) /\ ~OlderThanAge(s)
                           /\ ~AnyExcludingFlag(s.entry.replay))
            rows == SelectSeq(unflagged,
                LAMBDA s : Len(s.entry.replay.beatmap.hit_objects) >= 2)
        IN  /\ Len(result.labels) = Len(unflagged)
            /\ \A i \in 1..Len(unflagged) :
                  result.labels[i] = unflagged[i].entry.replay.accuracy
            /\ Len(result.features) = Len(rows)
            /\ \A i \in 1..Len(rows) :
                  result.features[i] = RowOfReplay(rows[i].entry.replay)

\* A relax replay between two replays that are kept: two rows, in scan order.
C3_Witness ==
    /\ pc = "returned"
    /\ Len(scanned) = 3
    /\ IsReplay(scanned[1]) /\ IsReplay(scanned[2]) /\ IsReplay(scanned[3])
    /\ scanned[2].entry.replay.relax
    /\ Len(result.features) = 2 /\ Len(result.labels) = 2
    /\ result.labels = <<80, 95>>
    /\ result.features[1] = RowOfReplay(scanned[1].entry.replay)
    /\ result.features[2] = RowOfReplay(scanned[3].entry.replay)
    /\ result.features[1] # result.features[2]

C10_ParseFailurePropagates ==
    /\ (\E i \in 1..Len(scanned) : IsUnparsed(scanned[i])) =>
          /\ pc = "raised"
          /\ IsUnparsed(scanned[Len(scanned)])
          /\ result.calls = <<>>
    /\ pc = "raised" =>
          /\ result.status = "raised"
          /\ result.features = <<>>
          /\ result.labels = <<>>
          /\ \/ IsUnparsed(scanned[Len(scanned)])
             \/ /\ result.calls # <<>>
                /\ \E i \in 1..Len(beatmaps_and_mods) :
                      beatmaps_and_mods[i] = result.calls[Len(result.calls)]
    /\ LET kept == SelectSeq(scanned,
                LAMBDA s : IsReplay(s) /\ ~OlderThanAge(s)
                           /\ ~AnyExcludingFlag(s.entry.replay))
       IN  /\ Len(beatmaps_and_mods) = Len(kept)
           /\ \A i \in 1..Len(kept) :
                 beatmaps_and_mods[i].beatmap = kept[i].entry.replay.beatmap

\* The parse fails after a replay was kept and another one skipped.
C10_Witness ==
    /\ pc = "raised"
    /\ Len(scanned) = 3
    /\ accuracies = <<95>>
    /\ IsReplay(scanned[2]) /\ scanned[2].entry.replay.cinema
    /\ IsUnparsed(scanned[3])
    /\ result.status = "raised"

=============================================================================
